---- MODULE Spec2Model ----
(***************************************************************************)
(* A model of the ATS prototype: the embedding and ranking engine of       *)
(* ats_engine.py, the PDF text extraction of ats_engine.py, and the        *)
(* compliance checker and recruiter feedback generator of app.py.          *)
(*                                                                         *)
(* Each component has its own variables and its own specification; the     *)
(* variables of the other components stay at their idle values.            *)
(***************************************************************************)
EXTENDS Integers, Sequences, FiniteSets, TLC

VARIABLES
  ge_pc,        \* get_embedding: "ready" before the call, "done" after it
  ge_text,      \* get_embedding: the argument `text`
  ge_ret,       \* get_embedding: the returned value (None or an embedding)
  ge_sent,      \* get_embedding: the inputs sent to client.embeddings.create
  ge_raised,    \* get_embedding: TRUE iff an exception left the function
  ge_resp,      \* get_embedding: what the endpoint did on this call
  rk_pc,        \* rank_candidates: "start", "loop" or "done"
  rk_jd,        \* rank_candidates: the argument job_description
  rk_cands,     \* rank_candidates: the argument candidates_data
  rk_i,         \* rank_candidates: index of the next candidate of the for loop
  rk_jdvec,     \* rank_candidates: jd_vector
  rk_scored,    \* rank_candidates: scored_candidates
  rk_result,    \* rank_candidates: the returned list
  rk_raised,    \* rank_candidates: TRUE iff an exception left the function
  rk_calls,     \* rank_candidates: the inputs sent to the embedding endpoint, in order
  cc_pc,        \* check_compliance: "ready" before the call, "done" after it
  cc_text,      \* check_compliance: the argument feedback_text
  cc_result,    \* check_compliance: the returned dict
  fb_pc,        \* generate_compliant_feedback_for_recruiter: "loop" or "done"
  fb_max,       \* ...: the argument max_retries
  fb_attempt,   \* ...: the loop variable `attempt`
  fb_calls,     \* ...: the chat-completion calls made, each with what came of it
  fb_prompt,    \* ...: the violation lists appended to system_prompt
  fb_result,    \* ...: the returned dict
  pdf_pc,       \* extract_text_from_pdf: "ready" before the call, "done" after it
  pdf_file,     \* extract_text_from_pdf: the argument uploaded_file
  pdf_result,   \* extract_text_from_pdf: the text returned or the exception raised
  vi_pc,        \* validate_inputs: "ready" before the call, "done" after it
  vi_jd,        \* validate_inputs: the argument job_desc
  vi_files,     \* validate_inputs: the argument files
  vi_result,    \* validate_inputs: the returned pair
  rp_pc,        \* recruiter page: "waiting" between script runs, "files" in the
                \* loop over the uploaded files, "ranking" inside rank_candidates
  rp_jd,        \* recruiter page: the text of the job description text area
  rp_files,     \* recruiter page: uploaded_files
  rp_i,         \* recruiter page: index of the file the loop is at
  rp_cands,     \* recruiter page: candidate_list_for_ranking
  rp_valid,     \* recruiter page: what validate_inputs returned on the last click
  rp_error,     \* recruiter page: the st.error message of the last click, if any
  rp_ranking,   \* recruiter page: TRUE iff the last click called rank_candidates
  rp_ranked,    \* recruiter page: st.session_state.ranked_data
  rp_shown,     \* recruiter page: TRUE iff the last script run showed the feedback section
  rp_choice,    \* recruiter page: the option the user picked in the selectbox, 0 for none
  rp_selname,   \* recruiter page: selected_candidate_name
  rp_selected   \* recruiter page: `selected`, the candidate the feedback is for

embVars  == <<ge_pc, ge_text, ge_ret, ge_sent, ge_raised, ge_resp>>
rankVars == <<rk_pc, rk_jd, rk_cands, rk_i, rk_jdvec, rk_scored, rk_result, rk_raised, rk_calls>>
ccVars   == <<cc_pc, cc_text, cc_result>>
fbVars   == <<fb_pc, fb_max, fb_attempt, fb_calls, fb_prompt, fb_result>>
pdfVars  == <<pdf_pc, pdf_file, pdf_result>>
viVars   == <<vi_pc, vi_jd, vi_files, vi_result>>
rpVars   == <<rp_pc, rp_jd, rp_files, rp_i, rp_cands, rp_valid, rp_error, rp_ranking,
              rp_ranked, rp_shown, rp_choice, rp_selname, rp_selected>>
vars     == <<embVars, rankVars, ccVars, fbVars, pdfVars, viVars, rpVars>>

-----------------------------------------------------------------------------
(* Texts.  A text handed to the embedding functions is kept run-length     *)
(* encoded: a sequence of runs [c |-> character, n |-> repetitions], no    *)
(* two neighbouring runs of the same character.  The operators below are   *)
(* Python's str operations on that encoding.                               *)

\* The characters str.strip() removes (ASCII).
Whitespace == {" ", "\t", "\n", "\r", "\f"}

Run(ch, k) == [c |-> ch, n |-> k]

\* Merge neighbouring runs of the same character.
RECURSIVE Norm(_)
Norm(t) ==
  IF Len(t) <= 1 THEN t
  ELSE LET r == Norm(Tail(t))
       IN IF t[1].c = r[1].c
          THEN <<Run(t[1].c, t[1].n + r[1].n)>> \o Tail(r)
          ELSE <<t[1]>> \o r

\* len(text)
RECURSIVE TextLen(_)
TextLen(t) == IF t = <<>> THEN 0 ELSE t[1].n + TextLen(Tail(t))

\* text.replace("\n", " ")
ReplaceNewlines(t) ==
  Norm([i \in 1..Len(t) |-> Run(IF t[i].c = "\n" THEN " " ELSE t[i].c, t[i].n)])

\* text.strip()
Strip(t) ==
  LET keep == {i \in 1..Len(t) : t[i].c \notin Whitespace}
  IN IF keep = {} THEN <<>>
     ELSE LET a == CHOOSE i \in keep : \A j \in keep : i <= j
              b == CHOOSE i \in keep : \A j \in keep : j <= i
          IN SubSeq(t, a, b)

\* text[:k]
RECURSIVE Prefix(_, _)
Prefix(t, k) ==
  IF t = <<>> \/ k <= 0 THEN <<>>
  ELSE IF t[1].n <= k THEN <<t[1]>> \o Prefix(Tail(t), k - t[1].n)
  ELSE <<Run(t[1].c, k)>>

\* `not text or not text.strip()`
IsBlank(t) == t = <<>> \/ Strip(t) = <<>>

-----------------------------------------------------------------------------
(* get_embedding                                                           *)

\* text[:8000]
EMBED_MAX_CHARS == 8000

NoneVal == [tag |-> "None"]
Some(v) == [tag |-> "Some", val |-> v]

\* What client.embeddings.create does on one call: it raises openai.APIError,
\* raises another exception, or returns a response whose data is a list of
\* embeddings.
ApiError       == [kind |-> "api_error", data |-> <<>>]
OtherError     == [kind |-> "error", data |-> <<>>]
Response(embs) == [kind |-> "response", data |-> embs]

\* EmbeddingInput with the truncation left out.
EmbeddingInputUncut(text) == Strip(ReplaceNewlines(text))

\* The input get_embedding sends: newlines replaced, stripped, truncated.
EmbeddingInput(text) == Prefix(Strip(ReplaceNewlines(text)), EMBED_MAX_CHARS)

\* The try block's handlers: APIError and every other Exception are caught
\* and turned into None.
EmbeddingHandlers(resp) == [ret |-> NoneVal, raised |-> FALSE]

\* get_embedding with the guard on blank text left out.
GetEmbeddingUnguarded(text, resp) ==
  [ret |-> IF resp.kind = "response" /\ resp.data # <<>> THEN Some(resp.data[1]) ELSE NoneVal,
   sent |-> <<EmbeddingInput(text)>>,
   raised |-> FALSE]

\* get_embedding(text), the endpoint answering `resp` if it is called:
\* the returned value, the inputs sent to the endpoint, and whether an
\* exception left the function.
GetEmbedding(text, resp) ==
  IF IsBlank(text)
  THEN [ret |-> NoneVal, sent |-> <<>>, raised |-> FALSE]
  ELSE LET input == EmbeddingInput(text)
           out == IF resp.kind # "response" THEN EmbeddingHandlers(resp)
                  ELSE IF resp.data = <<>> THEN [ret |-> NoneVal, raised |-> FALSE]
                  ELSE [ret |-> Some(resp.data[1]), raised |-> FALSE]
       IN [ret |-> out.ret, sent |-> <<input>>, raised |-> out.raised]

\* The texts get_embedding is tried on: optional leading whitespace, a body,
\* optional trailing whitespace; bodies reach and pass EMBED_MAX_CHARS.
EmbPrefixes == {<<>>, <<Run(" ", 1)>>, <<Run("\n", 2)>>}
EmbBodies ==
  { <<>>,
    <<Run("a", 1)>>,
    <<Run("a", 2), Run("\n", 1), Run("b", 1)>>,
    <<Run("a", 1), Run(" ", 1), Run("\n", 1), Run("b", 1)>>,
    <<Run("a", EMBED_MAX_CHARS - 1)>>,
    <<Run("a", EMBED_MAX_CHARS)>>,
    <<Run("a", EMBED_MAX_CHARS - 1), Run("\n", 1), Run("b", 2)>>,
    <<Run("a", EMBED_MAX_CHARS - 2), Run("\n", 3), Run("b", 2)>> }
EmbSuffixes == {<<>>, <<Run(" ", 2)>>, <<Run("\t", 1), Run("\n", 1)>>, <<Run("z", 1)>>}
EmbTexts == {Norm(p \o b \o q) : p \in EmbPrefixes, b \in EmbBodies, q \in EmbSuffixes}

\* Embedding vectors the endpoint may return.  <<1>> has another dimension
\* than the rest.
Vectors == {<<1, 0>>, <<0, 1>>, <<1, 1>>, <<-1, 0>>, <<0, 0>>, <<1>>}

NotCalled == [kind |-> "not_called", data |-> <<>>]
EmbResponses ==
  {ApiError, OtherError, Response(<<>>)}
    \cup {Response(<<v>>) : v \in Vectors}
    \cup {Response(<<v, w>>) : v \in {<<1, 0>>, <<0, 1>>}, w \in {<<1, 0>>, <<0, 1>>}}

EmbIdle ==
  /\ ge_pc = "idle"
  /\ ge_text = <<>>
  /\ ge_ret = NoneVal
  /\ ge_sent = <<>>
  /\ ge_raised = FALSE
  /\ ge_resp = NotCalled

EmbInit ==
  /\ ge_pc = "ready"
  /\ ge_text \in EmbTexts
  /\ ge_ret = NoneVal
  /\ ge_sent = <<>>
  /\ ge_raised = FALSE
  /\ ge_resp = NotCalled

\* One call of get_embedding(ge_text).
EmbCall ==
  /\ ge_pc = "ready"
  /\ \E resp \in EmbResponses :
       LET r == GetEmbedding(ge_text, resp)
       IN /\ ge_ret' = r.ret
          /\ ge_sent' = r.sent
          /\ ge_raised' = r.raised
          /\ ge_resp' = IF r.sent = <<>> THEN NotCalled ELSE resp
  /\ ge_pc' = "done"
  /\ UNCHANGED ge_text

-----------------------------------------------------------------------------
(* rank_candidates                                                         *)

RECURSIVE Dot(_, _)
Dot(a, b) == IF a = <<>> THEN 0 ELSE a[1] * b[1] + Dot(Tail(a), Tail(b))

\* sklearn's cosine_similarity([a], [b])[0][0]: both rows are L2-normalised
\* (a zero row is left as it is) and multiplied.  The score num / sqrt(den2)
\* is kept exactly, as the pair of its numerator and its squared denominator.
\* Rows of different lengths make sklearn raise ValueError.
CosineRaises(a, b) == Len(a) # Len(b)
CosineSimilarity(a, b) ==
  LET n2 == Dot(a, a) * Dot(b, b)
  IN IF n2 = 0 THEN [num |-> 0, den2 |-> 1] ELSE [num |-> Dot(a, b), den2 |-> n2]

\* The order of two scores as numbers: s <= t.
Sgn(x) == IF x > 0 THEN 1 ELSE IF x < 0 THEN -1 ELSE 0
ScoreLeq(s, t) ==
  Sgn(s.num) * s.num * s.num * t.den2 <= Sgn(t.num) * t.num * t.num * s.den2

\* The sort with reverse=True left out: lowest score first.
RECURSIVE SortByScoreAsc(_)
SortByScoreAsc(l) ==
  IF Len(l) <= 1 THEN l
  ELSE LET e == l[Len(l)]
           rest == SortByScoreAsc(SubSeq(l, 1, Len(l) - 1))
           k == Cardinality({i \in 1..Len(rest) : ScoreLeq(rest[i].score, e.score)})
       IN SubSeq(rest, 1, k) \o <<e>> \o SubSeq(rest, k + 1, Len(rest))

\* list.sort(key=lambda x: x['score'], reverse=True): a stable sort, highest
\* score first; entries of equal score keep their order.
RECURSIVE SortByScoreDesc(_)
SortByScoreDesc(l) ==
  IF Len(l) <= 1 THEN l
  ELSE LET e == l[Len(l)]
           rest == SortByScoreDesc(SubSeq(l, 1, Len(l) - 1))
           \* e goes after every entry whose score is >= its own
           k == Cardinality({i \in 1..Len(rest) : ScoreLeq(e.score, rest[i].score)})
       IN SubSeq(rest, 1, k) \o <<e>> \o SubSeq(rest, k + 1, Len(rest))

\* `isinstance(candidate, dict) and 'resume' in candidate and 'name' in candidate`
ValidCandidate(c) == c.isdict /\ "resume" \in c.keys /\ "name" \in c.keys

\* The inputs rank_candidates is tried on.
MaxCandidates == 3

RankJobDescriptions == {<<>>, <<Run(" ", 1), Run("\n", 1)>>, <<Run("j", 2), Run("\n", 1), Run("d", 1)>>}

Candidate(isdict, keys, name, resume) ==
  [isdict |-> isdict, keys |-> keys, name |-> name, resume |-> resume]
RankCandidates ==
  { Candidate(FALSE, {}, "", <<>>),                        \* not a dict
    Candidate(TRUE, {"name"}, "ann", <<>>),                \* no 'resume' key
    Candidate(TRUE, {"name", "resume"}, "ann", <<Run(" ", 2)>>),
    Candidate(TRUE, {"name", "resume"}, "ann", <<Run("r", 1)>>),
    Candidate(TRUE, {"name", "resume"}, "bob", <<Run("\n", 1), Run("s", 2)>>) }

RECURSIVE SeqsUpTo(_, _)
SeqsUpTo(S, n) ==
  IF n = 0 THEN {<<>>}
  ELSE LET shorter == SeqsUpTo(S, n - 1)
       IN shorter \cup {Append(q, x) : q \in shorter, x \in S}

\* candidates_data: a list, or a value that is no list (None when it has no
\* items, a tuple when it has).
RankCandidateData ==
  {[islist |-> TRUE, items |-> q] : q \in SeqsUpTo(RankCandidates, MaxCandidates)}
    \cup {[islist |-> FALSE, items |-> q] : q \in SeqsUpTo({Candidate(TRUE, {"name", "resume"}, "ann", <<Run("r", 1)>>)}, 1)}

RankResponses ==
  {ApiError, OtherError, Response(<<>>)} \cup {Response(<<v>>) : v \in Vectors}

RankIdle ==
  /\ rk_pc = "idle"
  /\ rk_jd = <<>>
  /\ rk_cands = [islist |-> TRUE, items |-> <<>>]
  /\ rk_i = 0
  /\ rk_jdvec = NoneVal
  /\ rk_scored = <<>>
  /\ rk_result = <<>>
  /\ rk_raised = FALSE
  /\ rk_calls = <<>>

RankInit ==
  /\ rk_pc = "start"
  /\ rk_jd \in RankJobDescriptions
  /\ rk_cands \in RankCandidateData
  /\ rk_i = 0
  /\ rk_jdvec = NoneVal
  /\ rk_scored = <<>>
  /\ rk_result = <<>>
  /\ rk_raised = FALSE
  /\ rk_calls = <<>>

\* `except Exception as e: st.error(...); return []` of rank_candidates.
RankHandler ==
  /\ rk_pc' = "done"
  /\ rk_result' = <<>>
  /\ rk_raised' = FALSE

\* `return []` of the guards before the loop.
RankReturnEmpty ==
  /\ rk_pc' = "done"
  /\ rk_result' = <<>>
  /\ rk_raised' = FALSE

\* The guard on job_description.
JobDescriptionRejected(jd) == IsBlank(jd)

\* The guard on candidates_data with the isinstance test left out.
CandidatesRejectedIfEmpty(cd) == cd.items = <<>>

\* The guard on candidates_data: `not candidates_data or not isinstance(candidates_data, list)`.
CandidatesRejected(cd) == cd.items = <<>> \/ ~cd.islist

\* rank_candidates up to the loop: the two guards, then the embedding of the
\* job description.
RankStart ==
  /\ rk_pc = "start"
  /\ IF JobDescriptionRejected(rk_jd) \/ CandidatesRejected(rk_cands)
     THEN /\ RankReturnEmpty
          /\ UNCHANGED <<rk_i, rk_jdvec, rk_calls>>
     ELSE \E resp \in RankResponses :
            LET r == GetEmbedding(rk_jd, resp)
            IN /\ rk_calls' = rk_calls \o r.sent
               /\ IF r.raised
                  THEN RankHandler /\ UNCHANGED <<rk_i, rk_jdvec>>
                  ELSE IF r.ret = NoneVal
                  THEN RankReturnEmpty /\ UNCHANGED <<rk_i, rk_jdvec>>
                  ELSE /\ rk_jdvec' = r.ret
                       /\ rk_i' = 1
                       /\ rk_pc' = "loop"
                       /\ UNCHANGED <<rk_result, rk_raised>>
  /\ UNCHANGED <<rk_jd, rk_cands, rk_scored>>

\* The end of one iteration of the for loop with scored_candidates = scored:
\* the next candidate, or after the last one the sort and the return.
RankAdvance(scored) ==
  /\ rk_scored' = scored
  /\ IF rk_i < Len(rk_cands.items)
     THEN /\ rk_i' = rk_i + 1
          /\ UNCHANGED <<rk_pc, rk_result, rk_raised>>
     ELSE /\ rk_result' = SortByScoreDesc(scored)
          /\ rk_pc' = "done"
          /\ UNCHANGED <<rk_i, rk_raised>>

\* One iteration of the for loop of rank_candidates.
RankStep ==
  /\ rk_pc = "loop"
  /\ LET candidate == rk_cands.items[rk_i]
     IN IF ~ValidCandidate(candidate)
        THEN RankAdvance(rk_scored) /\ UNCHANGED rk_calls
        ELSE \E resp \in RankResponses :
               LET r == GetEmbedding(candidate.resume, resp)
               IN /\ rk_calls' = rk_calls \o r.sent
                  /\ IF r.raised
                     THEN RankHandler /\ UNCHANGED <<rk_i, rk_scored>>
                     ELSE IF r.ret = NoneVal
                     THEN RankAdvance(rk_scored)
                     ELSE IF CosineRaises(rk_jdvec.val, r.ret.val)
                     THEN RankHandler /\ UNCHANGED <<rk_i, rk_scored>>
                     ELSE RankAdvance(Append(rk_scored,
                            [name |-> candidate.name,
                             score |-> CosineSimilarity(rk_jdvec.val, r.ret.val),
                             resume |-> candidate.resume]))
  /\ UNCHANGED <<rk_jd, rk_cands, rk_jdvec>>

-----------------------------------------------------------------------------
(* FeedbackComplianceChecker (app.py).  Feedback texts are strings.        *)

\* FeedbackComplianceChecker.prohibited_terms
ProhibitedTerms ==
  { "age", "young", "old", "mature", "recent graduate", "retirement",
    "youthful", "elderly", "senior", "junior", "experienced professional",
    "native", "foreign", "accent", "immigrant", "citizenship",
    "visa", "work authorization", "country of origin",
    "he", "she", "his", "her", "him", "gender", "man", "woman",
    "masculine", "feminine", "lady", "gentleman",
    "disability", "handicap", "disabled", "able-bodied", "medical condition",
    "health", "accommodation",
    "culture fit", "personality", "enthusiasm", "attitude", "energy level",
    "passion", "motivated", "team player", "ambitious",
    "family", "children", "married", "single", "parent", "spouse",
    "maternity", "paternity",
    "religious", "religion", "faith", "church", "mosque", "temple",
    "diverse", "diversity", "minority", "majority",
    "pregnant", "pregnancy", "veteran", "military service" }

\* FeedbackComplianceChecker.allowed_contexts, the phrases of all its values
AllowedContexts ==
  { "years of experience", "work experience",
    "native code", "native app", "native development" }

\* high_severity of check_compliance
HighSeverity ==
  { "age", "gender", "disability", "race", "religion",
    "pregnant", "family", "married", "children" }

RecommendationNone == "Feedback passed compliance check."
RecommendationLow ==
  "Review feedback for soft skills language. Consider focusing only on technical qualifications."
RecommendationHigh ==
  "CRITICAL: Feedback contains prohibited discriminatory language. Do not send. Regenerate with stricter constraints."

\* `sub in s` for strings
Contains(sub, s) ==
  \E i \in 1..(Len(s) - Len(sub) + 1) : SubSeq(s, i, i + Len(sub) - 1) = sub

\* str.lower() (ASCII letters)
UpperLetters == "ABCDEFGHIJKLMNOPQRSTUVWXYZ"
LowerLetters == "abcdefghijklmnopqrstuvwxyz"
LowerChar(c) ==
  IF \E i \in 1..Len(UpperLetters) : SubSeq(UpperLetters, i, i) = c
  THEN LET i == CHOOSE i \in 1..Len(UpperLetters) : SubSeq(UpperLetters, i, i) = c
       IN SubSeq(LowerLetters, i, i)
  ELSE c
RECURSIVE Lower(_)
Lower(s) ==
  IF Len(s) = 0 THEN ""
  ELSE LowerChar(SubSeq(s, 1, 1)) \o Lower(SubSeq(s, 2, Len(s)))

\* The exemption with `term in context` left out: any allowed phrase in the
\* text exempts every term.
IsAllowedByAnyContext(term, feedback_lower) ==
  \E context \in AllowedContexts : Contains(context, feedback_lower)

\* is_allowed of check_compliance: some allowed phrase occurs in the text and
\* holds the term.
IsAllowed(term, feedback_lower) ==
  \E context \in AllowedContexts :
    Contains(context, feedback_lower) /\ Contains(term, context)

\* The severity with all() in place of any().
SeverityIfAllHigh(violations) ==
  IF violations = {} THEN "none"
  ELSE IF \A term \in violations : term \in HighSeverity THEN "high"
  ELSE "low"

\* `# Determine severity` of check_compliance
Severity(violations) ==
  IF violations = {} THEN "none"
  ELSE IF \E term \in violations : term \in HighSeverity THEN "high"
  ELSE "low"

\* `# Generate recommendation` of check_compliance
Recommendation(severity) ==
  IF severity = "none" THEN RecommendationNone
  ELSE IF severity = "low" THEN RecommendationLow
  ELSE RecommendationHigh

\* check_compliance(feedback_text).  `violations` is built by iterating over
\* a Python set, so the order of the list is not fixed; it is kept as the set
\* of its elements (no term is appended twice).
CheckCompliance(feedback_text) ==
  LET feedback_lower == Lower(feedback_text)
      violations == { term \in ProhibitedTerms :
                        Contains(term, feedback_lower) /\ ~IsAllowed(term, feedback_lower) }
      severity == Severity(violations)
  IN [compliant |-> Cardinality(violations) = 0,
      violations |-> violations,
      severity |-> severity,
      recommendation |-> Recommendation(severity)]

\* The feedback texts check_compliance is tried on: up to MaxWords pieces.
MaxWords == 3
Pieces ==
  { "native", "Native ", " app ", " speaker ", "a native app",
    "manage", "The ", "skills ", "Passion" }
RECURSIVE Concat(_)
Concat(q) == IF q = <<>> THEN "" ELSE q[1] \o Concat(Tail(q))
FeedbackTexts == {Concat(q) : q \in SeqsUpTo(Pieces, MaxWords)}

NoResult == [compliant |-> FALSE, violations |-> {}, severity |-> "", recommendation |-> ""]

CcIdle ==
  /\ cc_pc = "idle"
  /\ cc_text = ""
  /\ cc_result = NoResult

CcInit ==
  /\ cc_pc = "ready"
  /\ cc_text \in FeedbackTexts
  /\ cc_result = NoResult

\* One call of checker.check_compliance(cc_text).
CcCheck ==
  /\ cc_pc = "ready"
  /\ cc_result' = CheckCompliance(cc_text)
  /\ cc_pc' = "done"
  /\ UNCHANGED cc_text

-----------------------------------------------------------------------------
(* generate_compliant_feedback_for_recruiter (app.py)                      *)

\* The largest max_retries tried; the smallest is -1, for which
\* range(max_retries + 1) is empty.
MaxRetries == 3

\* What client.chat.completions.create does on one call: it raises, or it
\* returns a response whose first choice has this content (None or a text).
ChatRaises      == [kind |-> "error", content |-> NoneVal]
ChatContent(c)  == [kind |-> "response", content |-> c]
ChatTexts       == {"", "skills ", "The skills ", "Passion", "manage", "a native app"}
ChatOutcomes    == {ChatRaises, ChatContent(NoneVal)} \cup {ChatContent(Some(t)) : t \in ChatTexts}

\* `range(max_retries + 1)`: the number of iterations of the for loop.
Attempts(max_retries) == max_retries + 1

\* The test for retries with the last attempt counted as one more retry.
RetriesLeftOffByOne(attempt, max_retries) == attempt <= max_retries

\* `if attempt < max_retries`: another attempt follows a failed check.
RetriesLeft(attempt, max_retries) == attempt < max_retries

\* The dict returned for a compliant text.
CompliantResult(feedback) ==
  [feedback |-> Some(feedback), compliant |-> TRUE, violations |-> {},
   severity |-> "none", recommendation |-> "Feedback passed compliance check.",
   error |-> NoneVal]

\* The dict for a text that failed the check, the violations not passed on.
NonCompliantResultNoViolations(feedback, compliance_result) ==
  [feedback |-> Some(feedback), compliant |-> FALSE, violations |-> {},
   severity |-> compliance_result.severity,
   recommendation |-> compliance_result.recommendation,
   error |-> NoneVal]

\* The dict returned when the retries are used up and the text failed the check.
NonCompliantResult(feedback, compliance_result) ==
  [feedback |-> Some(feedback), compliant |-> FALSE,
   violations |-> compliance_result.violations,
   severity |-> compliance_result.severity,
   recommendation |-> compliance_result.recommendation,
   error |-> NoneVal]

\* The dict returned by the except clause and by the return after the loop.
ErrorResult(message) ==
  [feedback |-> NoneVal, compliant |-> FALSE, violations |-> {},
   severity |-> "none", recommendation |-> "", error |-> Some(message)]

NoFeedbackResult ==
  [feedback |-> NoneVal, compliant |-> FALSE, violations |-> {},
   severity |-> "", recommendation |-> "", error |-> NoneVal]

FbIdle ==
  /\ fb_pc = "idle"
  /\ fb_max = 0
  /\ fb_attempt = 0
  /\ fb_calls = <<>>
  /\ fb_prompt = <<>>
  /\ fb_result = NoFeedbackResult

FbInit ==
  /\ fb_pc = "loop"
  /\ fb_max \in -1..MaxRetries
  /\ fb_attempt = 0
  /\ fb_calls = <<>>
  /\ fb_prompt = <<>>
  /\ fb_result = NoFeedbackResult

\* One iteration of the for loop: the chat-completion call, the compliance
\* check of its text, and the return, or the `continue` with the violations
\* appended to system_prompt.  A call that raises, and a content of None
\* (check_compliance raises on it), end in the except clause.
FbAttempt ==
  /\ fb_pc = "loop"
  /\ fb_attempt < Attempts(fb_max)
  /\ \E outcome \in ChatOutcomes :
       /\ fb_calls' = Append(fb_calls, outcome)
       /\ IF outcome.kind = "error" \/ outcome.content = NoneVal
          THEN /\ fb_result' = ErrorResult("API Error")
               /\ fb_pc' = "done"
               /\ UNCHANGED <<fb_attempt, fb_prompt>>
          ELSE LET feedback == outcome.content.val
                   compliance_result == CheckCompliance(feedback)
               IN IF compliance_result.compliant
                  THEN /\ fb_result' = CompliantResult(feedback)
                       /\ fb_pc' = "done"
                       /\ UNCHANGED <<fb_attempt, fb_prompt>>
                  ELSE IF RetriesLeft(fb_attempt, fb_max)
                  THEN /\ fb_prompt' = Append(fb_prompt, compliance_result.violations)
                       /\ fb_attempt' = fb_attempt + 1
                       /\ UNCHANGED <<fb_pc, fb_result>>
                  ELSE /\ fb_result' = NonCompliantResult(feedback, compliance_result)
                       /\ fb_pc' = "done"
                       /\ UNCHANGED <<fb_attempt, fb_prompt>>
  /\ UNCHANGED fb_max

\* The return after the for loop, reached when the loop ends without a return.
FbExhausted ==
  /\ fb_pc = "loop"
  /\ fb_attempt >= Attempts(fb_max)
  /\ fb_result' = ErrorResult("Failed to generate compliant feedback after maximum retries")
  /\ fb_pc' = "done"
  /\ UNCHANGED <<fb_max, fb_attempt, fb_calls, fb_prompt>>

-----------------------------------------------------------------------------
(* extract_text_from_pdf (ats_engine.py).  Page texts are strings.         *)

\* str.strip() of a string
StripString(s) ==
  LET keep == {i \in 1..Len(s) : SubSeq(s, i, i) \notin Whitespace}
  IN IF keep = {} THEN ""
     ELSE LET a == CHOOSE i \in keep : \A j \in keep : i <= j
              b == CHOOSE i \in keep : \A j \in keep : j <= i
          IN SubSeq(s, a, b)

\* How a call ends: it returns a value, or an exception of some type with
\* some message leaves it.
Return(v)      == [kind |-> "return", value |-> v, type |-> "", message |-> ""]
Raise(t, msg)  == [kind |-> "raise", value |-> "", type |-> t, message |-> msg]

\* page.extract_text(): it raises, returns None, or returns a text.
PageRaises   == [kind |-> "raise", text |-> ""]
PageNone     == [kind |-> "none", text |-> ""]
PageText(t)  == [kind |-> "text", text |-> t]

\* An uploaded file: whether the object is truthy, what read() does ("raise"
\* or "bytes"), whether the bytes are empty, what PdfReader does with them
\* ("raise" or "pages"), and the pages of the reader.
File(present, read, empty, parse, pages) ==
  [present |-> present, read |-> read, empty |-> empty, parse |-> parse, pages |-> pages]

\* The for loop over reader.pages, from page k on, with `text` so far: the
\* text after the last page, or the exception of the first page that raises.
RECURSIVE ReadPages(_, _, _)
ReadPages(pages, k, text) ==
  IF k > Len(pages) THEN Return(text)
  ELSE IF pages[k].kind = "raise" THEN Raise("PdfReadError", "page")
  ELSE IF pages[k].kind = "text" /\ pages[k].text # ""
       THEN ReadPages(pages, k + 1, text \o pages[k].text \o "\n")
  ELSE ReadPages(pages, k + 1, text)

\* The body of the try block.
ExtractBody(uploaded_file) ==
  IF ~uploaded_file.present THEN Raise("ValueError", "No file provided")
  ELSE IF uploaded_file.read = "raise" THEN Raise("OSError", "read")
  ELSE IF uploaded_file.empty THEN Raise("ValueError", "Uploaded file is empty")
  ELSE IF uploaded_file.parse = "raise" THEN Raise("PdfReadError", "parse")
  ELSE IF uploaded_file.pages = <<>> THEN Raise("ValueError", "PDF has no pages")
  ELSE LET read == ReadPages(uploaded_file.pages, 1, "")
       IN IF read.kind = "raise" THEN read ELSE Return(StripString(read.value))

\* The except clause with a bare `raise`: the exception leaves as it is.
ExtractHandlerReraise(outcome) == outcome

\* `except Exception as e: raise ValueError(f"Error extracting PDF text: {str(e)}")`
ExtractHandler(outcome) ==
  IF outcome.kind = "raise"
  THEN Raise("ValueError", "Error extracting PDF text: " \o outcome.message)
  ELSE outcome

\* extract_text_from_pdf(uploaded_file)
ExtractTextFromPdf(uploaded_file) == ExtractHandler(ExtractBody(uploaded_file))

\* The files extract_text_from_pdf is tried on.
MaxPages == 3
PageOutcomes ==
  { PageRaises, PageNone, PageText(""), PageText("a"), PageText(" b\n"),
    PageText("\n"), PageText("c d ") }
PdfFiles ==
  { File(FALSE, "bytes", TRUE, "pages", <<>>),
    File(TRUE, "raise", TRUE, "pages", <<>>),
    File(TRUE, "bytes", TRUE, "pages", <<>>),
    File(TRUE, "bytes", FALSE, "raise", <<>>) }
    \cup {File(TRUE, "bytes", FALSE, "pages", q) : q \in SeqsUpTo(PageOutcomes, MaxPages)}

PdfIdle ==
  /\ pdf_pc = "idle"
  /\ pdf_file = File(FALSE, "bytes", TRUE, "pages", <<>>)
  /\ pdf_result = Return("")

PdfInit ==
  /\ pdf_pc = "ready"
  /\ pdf_file \in PdfFiles
  /\ pdf_result = Return("")

\* One call of extract_text_from_pdf(pdf_file).
PdfExtract ==
  /\ pdf_pc = "ready"
  /\ pdf_result' = ExtractTextFromPdf(pdf_file)
  /\ pdf_pc' = "done"
  /\ UNCHANGED pdf_file

-----------------------------------------------------------------------------
(* validate_inputs (Pages/pages/02_recruiter.py)                           *)

\* `len(job_desc.strip()) < 50`
MIN_JD_CHARS == 50

\* `len(files) > 50`
MAX_RESUMES == 50

Invalid(message) == [ok |-> FALSE, message |-> Some(message)]
Valid            == [ok |-> TRUE, message |-> NoneVal]

\* validate_inputs(job_desc, files)
\* validate_inputs with `len(files) >= 50` for the last rule.
ValidateInputsBelowMax(job_desc, files) ==
  IF IsBlank(job_desc) THEN Invalid("Job description cannot be empty")
  ELSE IF TextLen(Strip(job_desc)) < MIN_JD_CHARS
       THEN Invalid("Job description too short (minimum 50 characters)")
  ELSE IF files = <<>> THEN Invalid("No resumes uploaded")
  ELSE IF Len(files) >= MAX_RESUMES THEN Invalid("Maximum 50 resumes per batch")
  ELSE Valid

ValidateInputs(job_desc, files) ==
  IF IsBlank(job_desc) THEN Invalid("Job description cannot be empty")
  ELSE IF TextLen(Strip(job_desc)) < MIN_JD_CHARS
       THEN Invalid("Job description too short (minimum 50 characters)")
  ELSE IF files = <<>> THEN Invalid("No resumes uploaded")
  ELSE IF Len(files) > MAX_RESUMES THEN Invalid("Maximum 50 resumes per batch")
  ELSE Valid

\* An uploaded file: its name, and what extract_text_from_pdf meets in it.
UploadedFile(name, pdf) == [name |-> name, pdf |-> pdf]

PdfOfText(t)  == File(TRUE, "bytes", FALSE, "pages", <<PageText(t)>>)
UnreadablePdf == File(TRUE, "bytes", FALSE, "raise", <<>>)

\* n copies of a file
Copies(f, n) == [i \in 1..n |-> f]

\* The job descriptions validate_inputs is tried on: empty, whitespace, one
\* character short of the minimum with whitespace around, and long enough.
JobDescriptions ==
  { <<>>,
    <<Run(" ", 2), Run("\n", 1)>>,
    <<Run(" ", 1), Run("j", MIN_JD_CHARS - 1), Run("\n", 3)>>,
    <<Run("j", 1), Run(" ", MIN_JD_CHARS - 2), Run("d", 1)>>,
    <<Run("\n", 1), Run("j", MIN_JD_CHARS - 1), Run("\n", 1), Run("d", 1), Run(" ", 1)>>,
    <<Run("j", MIN_JD_CHARS + 1)>> }

\* The numbers of files validate_inputs is tried on.
FileCounts == {0, 1, 2, MAX_RESUMES - 1, MAX_RESUMES, MAX_RESUMES + 1, MAX_RESUMES + 2}

ViIdle ==
  /\ vi_pc = "idle"
  /\ vi_jd = <<>>
  /\ vi_files = <<>>
  /\ vi_result = Valid

ViInit ==
  /\ vi_pc = "ready"
  /\ vi_jd \in JobDescriptions
  /\ vi_files \in {Copies(UploadedFile("cv.pdf", UnreadablePdf), n) : n \in FileCounts}
  /\ vi_result = Valid

\* One call of validate_inputs(vi_jd, vi_files).
ViCall ==
  /\ vi_pc = "ready"
  /\ vi_result' = ValidateInputs(vi_jd, vi_files)
  /\ vi_pc' = "done"
  /\ UNCHANGED <<vi_jd, vi_files>>

-----------------------------------------------------------------------------
(* The recruiter page (Pages/pages/02_recruiter.py): one script run per    *)
(* user interaction.  The widget values rp_jd and rp_files are those of    *)
(* the initial state, except for "Clear All".                              *)

\* `len(raw_resume_text.strip()) < 10`
MIN_RESUME_CHARS == 10

\* s.replace(sub, '') for strings
RECURSIVE RemoveAll(_, _)
RemoveAll(s, sub) ==
  IF Len(s) < Len(sub) THEN s
  ELSE IF SubSeq(s, 1, Len(sub)) = sub
       THEN RemoveAll(SubSeq(s, Len(sub) + 1, Len(s)), sub)
  ELSE SubSeq(s, 1, 1) \o RemoveAll(SubSeq(s, 2, Len(s)), sub)

\* clean_and_structure_resume: the text it returns, and whether that text
\* starts with "Error".
CleanOutcomes ==
  { [error |-> TRUE, text |-> <<>>],
    [error |-> FALSE, text |-> <<Run("r", 1)>>],
    [error |-> FALSE, text |-> <<Run(" ", 1)>>] }

\* The uploads the page is tried on.
FileA  == UploadedFile("a.pdf", PdfOfText("python dev 5y"))
FileA2 == UploadedFile("a.pdf.pdf", PdfOfText(" sql analyst 2y\n"))
FileB  == UploadedFile("b.pdf", PdfOfText("java lead 9 years"))
FileC  == UploadedFile("c.pdf", UnreadablePdf)
ShortFile == UploadedFile("d.pdf", PdfOfText("short cv"))
PageUploads ==
  { <<>>, <<FileC>>, <<ShortFile, FileB>>, <<FileA, FileA2>>, <<FileA, FileC, FileB>>,
    Copies(ShortFile, MAX_RESUMES - 2) \o <<FileA, FileB>>,
    Copies(ShortFile, MAX_RESUMES - 1) \o <<FileA, FileB>> }
PageJobDescriptions ==
  { <<Run(" ", 2), Run("\n", 1)>>,
    <<Run(" ", 1), Run("j", MIN_JD_CHARS - 1), Run("\n", 3)>>,
    <<Run("\n", 1), Run("j", MIN_JD_CHARS - 1), Run("\n", 1), Run("d", 1), Run(" ", 1)>> }

RpIdle ==
  /\ rp_pc = "idle"
  /\ rp_jd = <<>>
  /\ rp_files = <<>>
  /\ rp_i = 0
  /\ rp_cands = <<>>
  /\ rp_valid = NoneVal
  /\ rp_error = ""
  /\ rp_ranking = FALSE
  /\ rp_ranked = NoneVal
  /\ rp_shown = FALSE
  /\ rp_choice = 0
  /\ rp_selname = ""
  /\ rp_selected = NoneVal

\* The page after init_session_state and the first script run.
RpInit ==
  /\ rp_pc = "waiting"
  /\ rp_jd \in PageJobDescriptions
  /\ rp_files \in PageUploads
  /\ rp_i = 0
  /\ rp_cands = <<>>
  /\ rp_valid = NoneVal
  /\ rp_error = ""
  /\ rp_ranking = FALSE
  /\ rp_ranked = NoneVal
  /\ rp_shown = FALSE
  /\ rp_choice = 0
  /\ rp_selname = ""
  /\ rp_selected = NoneVal

\* The local variables of rank_candidates between two calls.
RankCleared ==
  /\ rk_pc' = "idle"
  /\ rk_jd' = <<>>
  /\ rk_cands' = [islist |-> TRUE, items |-> <<>>]
  /\ rk_i' = 0
  /\ rk_jdvec' = NoneVal
  /\ rk_scored' = <<>>
  /\ rk_result' = <<>>
  /\ rk_raised' = FALSE
  /\ rk_calls' = <<>>

\* The call rank_candidates(job_description, candidate_list_for_ranking).
RankCall(job_description, candidates) ==
  /\ rk_pc' = "start"
  /\ rk_jd' = job_description
  /\ rk_cands' = [islist |-> TRUE, items |-> candidates]
  /\ rk_i' = 0
  /\ rk_jdvec' = NoneVal
  /\ rk_scored' = <<>>
  /\ rk_result' = <<>>
  /\ rk_raised' = FALSE
  /\ rk_calls' = <<>>

\* `index=len(st.session_state.ranked_data) - 1`, counted from 1.
DefaultIndex(ranked_data) == Len(ranked_data)

\* `next(c for c in st.session_state.ranked_data if c['name'] == name)`
FirstNamed(ranked_data, name) ==
  ranked_data[CHOOSE i \in 1..Len(ranked_data) :
                /\ ranked_data[i].name = name
                /\ \A j \in 1..(i - 1) : ranked_data[j].name # name]

\* The feedback section of one script run, with session_state.ranked_data =
\* ranked and the selectbox at the user's choice (0: the default index).
\* A run that does not reach the selectbox forgets the choice.
FeedbackSection(ranked, choice) ==
  IF ranked = NoneVal \/ ranked.val = <<>>
  THEN /\ rp_shown' = FALSE
       /\ rp_choice' = 0
       /\ rp_selname' = ""
       /\ rp_selected' = NoneVal
  ELSE LET index == IF choice = 0 THEN DefaultIndex(ranked.val) ELSE choice
           selected_candidate_name == ranked.val[index].name
       IN /\ rp_shown' = TRUE
          /\ rp_choice' = choice
          /\ rp_selname' = selected_candidate_name
          /\ rp_selected' = Some(FirstNamed(ranked.val, selected_candidate_name))

\* st.error(message) followed by st.stop(): the script run ends here, before
\* the feedback section.
RpStopped(message) ==
  /\ rp_error' = message
  /\ rp_pc' = "waiting"
  /\ rp_shown' = FALSE
  /\ rp_choice' = 0
  /\ rp_selname' = ""
  /\ rp_selected' = NoneVal

\* A click on "Run Ranking Engine", enabled when job_description and
\* uploaded_files are truthy: the validation, and the stop or the start of
\* the loop over the files.
RpClick ==
  /\ rp_pc = "waiting"
  /\ rp_jd # <<>>
  /\ rp_files # <<>>
  /\ LET validation == ValidateInputs(rp_jd, rp_files)
     IN /\ rp_valid' = Some(validation)
        /\ IF ~validation.ok
           THEN /\ RpStopped("Validation Error: " \o validation.message.val)
                /\ UNCHANGED <<rp_i, rp_cands>>
           ELSE /\ rp_pc' = "files"
                /\ rp_i' = 1
                /\ rp_cands' = <<>>
                /\ rp_error' = ""
                /\ rp_shown' = FALSE
                /\ rp_selname' = ""
                /\ rp_selected' = NoneVal
                /\ UNCHANGED rp_choice
  /\ rp_ranking' = FALSE
  /\ RankCleared
  /\ UNCHANGED <<rp_jd, rp_files, rp_ranked>>

\* The end of one iteration of the loop over the files with
\* candidate_list_for_ranking = candidates: the next file, or after the last
\* one the stop for an empty list or the call of rank_candidates.
RpNextFile(candidates) ==
  /\ rp_cands' = candidates
  /\ IF rp_i < Len(rp_files)
     THEN /\ rp_i' = rp_i + 1
          /\ UNCHANGED <<rp_pc, rp_error, rp_ranking, rp_shown, rp_choice, rp_selname,
                         rp_selected, rankVars>>
     ELSE IF candidates = <<>>
     THEN /\ RpStopped("No resumes could be processed.")
          /\ UNCHANGED <<rp_i, rp_ranking, rankVars>>
     ELSE /\ rp_pc' = "ranking"
          /\ rp_ranking' = TRUE
          /\ RankCall(rp_jd, candidates)
          /\ UNCHANGED <<rp_i, rp_error, rp_shown, rp_choice, rp_selname, rp_selected>>

\* One iteration of the loop over uploaded_files: extraction, the test of
\* the raw text, cleaning, and the append.
RpFile ==
  /\ rp_pc = "files"
  /\ LET file == rp_files[rp_i]
         raw == ExtractTextFromPdf(file.pdf)
     IN IF raw.kind = "raise"
        THEN IF raw.type = "ValueError"
             THEN RpNextFile(rp_cands)
             ELSE /\ RpStopped("Unexpected error: " \o raw.message)
                  /\ UNCHANGED <<rp_i, rp_cands, rp_ranking, rankVars>>
        ELSE IF raw.value = "" \/ Len(StripString(raw.value)) < MIN_RESUME_CHARS
        THEN RpNextFile(rp_cands)
        ELSE \E clean \in CleanOutcomes :
               IF clean.error
               THEN RpNextFile(rp_cands)
               ELSE RpNextFile(Append(rp_cands,
                      Candidate(TRUE, {"name", "resume"},
                                RemoveAll(file.name, ".pdf"), clean.text)))
  /\ UNCHANGED <<rp_jd, rp_files, rp_valid, rp_ranked>>

\* rank_candidates has returned: the stop for an empty result, or the result
\* stored in session_state.ranked_data and the feedback section of this run.
\* The selectbox keeps the user's choice only if its options are the same.
RpRanked ==
  /\ rp_pc = "ranking"
  /\ rk_pc = "done"
  /\ IF rk_result = <<>>
     THEN /\ RpStopped("Ranking failed. Please try again.")
          /\ UNCHANGED rp_ranked
     ELSE LET names(l) == [i \in 1..Len(l) |-> l[i].name]
              kept == IF rp_ranked # NoneVal /\ names(rp_ranked.val) = names(rk_result)
                      THEN rp_choice ELSE 0
          IN /\ rp_ranked' = Some(rk_result)
             /\ rp_error' = ""
             /\ rp_pc' = "waiting"
             /\ FeedbackSection(Some(rk_result), kept)
  /\ UNCHANGED <<rp_jd, rp_files, rp_i, rp_cands, rp_valid, rp_ranking, rankVars>>

\* A script run without a click: the page is drawn again from the session
\* state.
RpRerun ==
  /\ rp_pc = "waiting"
  /\ rp_error' = ""
  /\ FeedbackSection(rp_ranked, rp_choice)
  /\ UNCHANGED <<rp_pc, rp_jd, rp_files, rp_i, rp_cands, rp_valid, rp_ranking, rp_ranked,
                 rankVars>>

\* The user picks option k of the selectbox.
RpSelect ==
  /\ rp_pc = "waiting"
  /\ rp_shown
  /\ \E k \in 1..Len(rp_ranked.val) :
       FeedbackSection(rp_ranked, k)
  /\ rp_error' = ""
  /\ UNCHANGED <<rp_pc, rp_jd, rp_files, rp_i, rp_cands, rp_valid, rp_ranking, rp_ranked,
                 rankVars>>

\* "Start New Screening": the three session keys are deleted and the script
\* runs again.
RpNewScreening ==
  /\ rp_pc = "waiting"
  /\ rp_shown
  /\ rp_ranked' = NoneVal
  /\ rp_error' = ""
  /\ FeedbackSection(NoneVal, 0)
  /\ UNCHANGED <<rp_pc, rp_jd, rp_files, rp_i, rp_cands, rp_valid, rp_ranking, rankVars>>

\* "Clear All": every session key is deleted and the script runs again;
\* the text area and the file uploader each keep their value or lose it.
RpClearAll ==
  /\ rp_pc = "waiting"
  /\ rp_ranked' = NoneVal
  /\ rp_jd' \in {rp_jd, <<>>}
  /\ rp_files' \in {rp_files, <<>>}
  /\ rp_error' = ""
  /\ FeedbackSection(NoneVal, 0)
  /\ UNCHANGED <<rp_pc, rp_i, rp_cands, rp_valid, rp_ranking, rankVars>>

-----------------------------------------------------------------------------
(* Specifications                                                          *)

\* get_embedding alone.
EmbNext == EmbCall /\ UNCHANGED <<rankVars, ccVars, fbVars, pdfVars, viVars, rpVars>>
InitEmbed == EmbInit /\ RankIdle /\ CcIdle /\ FbIdle /\ PdfIdle /\ ViIdle /\ RpIdle
SpecEmbed == InitEmbed /\ [][EmbNext]_vars

RankNext ==
  \/ RankStart /\ UNCHANGED <<embVars, ccVars, fbVars, pdfVars, viVars, rpVars>>
  \/ RankStep /\ UNCHANGED <<embVars, ccVars, fbVars, pdfVars, viVars, rpVars>>

\* rank_candidates.
InitRank == RankInit /\ EmbIdle /\ CcIdle /\ FbIdle /\ PdfIdle /\ ViIdle /\ RpIdle
SpecRank == InitRank /\ [][RankNext]_vars

\* check_compliance alone.
CcNext == CcCheck /\ UNCHANGED <<embVars, rankVars, fbVars, pdfVars, viVars, rpVars>>
InitCompliance == CcInit /\ EmbIdle /\ RankIdle /\ FbIdle /\ PdfIdle /\ ViIdle /\ RpIdle
SpecCompliance == InitCompliance /\ [][CcNext]_vars

\* generate_compliant_feedback_for_recruiter.
FbNext ==
  \/ FbAttempt /\ UNCHANGED <<embVars, rankVars, ccVars, pdfVars, viVars, rpVars>>
  \/ FbExhausted /\ UNCHANGED <<embVars, rankVars, ccVars, pdfVars, viVars, rpVars>>
InitFeedback == FbInit /\ EmbIdle /\ RankIdle /\ CcIdle /\ PdfIdle /\ ViIdle /\ RpIdle
SpecFeedback == InitFeedback /\ [][FbNext]_vars

\* extract_text_from_pdf alone.
PdfNext == PdfExtract /\ UNCHANGED <<embVars, rankVars, ccVars, fbVars, viVars, rpVars>>
InitPdf == PdfInit /\ EmbIdle /\ RankIdle /\ CcIdle /\ FbIdle /\ ViIdle /\ RpIdle
SpecPdf == InitPdf /\ [][PdfNext]_vars

\* The recruiter page with rank_candidates running inside it, and
\* validate_inputs alone: a behaviour is one of the page or one of the
\* function.
RecruiterNext ==
  \/ RpClick /\ UNCHANGED <<embVars, ccVars, fbVars, pdfVars, viVars>>
  \/ RpFile /\ UNCHANGED <<embVars, ccVars, fbVars, pdfVars, viVars>>
  \/ RankStart /\ UNCHANGED <<embVars, ccVars, fbVars, pdfVars, viVars, rpVars>>
  \/ RankStep /\ UNCHANGED <<embVars, ccVars, fbVars, pdfVars, viVars, rpVars>>
  \/ RpRanked /\ UNCHANGED <<embVars, ccVars, fbVars, pdfVars, viVars>>
  \/ RpRerun /\ UNCHANGED <<embVars, ccVars, fbVars, pdfVars, viVars>>
  \/ RpSelect /\ UNCHANGED <<embVars, ccVars, fbVars, pdfVars, viVars>>
  \/ RpNewScreening /\ UNCHANGED <<embVars, ccVars, fbVars, pdfVars, viVars>>
  \/ RpClearAll /\ UNCHANGED <<embVars, ccVars, fbVars, pdfVars, viVars>>
  \/ ViCall /\ UNCHANGED <<embVars, rankVars, ccVars, fbVars, pdfVars, rpVars>>
InitRecruiter ==
  /\ EmbIdle /\ CcIdle /\ FbIdle /\ PdfIdle /\ RankIdle
  /\ \/ RpInit /\ ViIdle
     \/ RpIdle /\ ViInit
SpecRecruiter == InitRecruiter /\ [][RecruiterNext]_vars

-----------------------------------------------------------------------------
(* Claims about rank_candidates (SpecRank)                                 *)

\* A list of scored entries runs from the highest score to the lowest.
ScoresDescend(l) == \A i \in 1..(Len(l) - 1) : ScoreLeq(l[i + 1].score, l[i].score)

\* s < t
ScoreLess(s, t) == ScoreLeq(s, t) /\ ~ScoreLeq(t, s)

\* C1: the list rank_candidates returns is ordered by score from highest to
\* lowest: of every two neighbouring entries the earlier one's score is
\* greater than or equal to the later one's.
C1_RankedDescending == rk_pc = "done" => ScoresDescend(rk_result)

\* C1 witness: a returned list of three entries with three different scores
\* that were appended in another order than the one returned.
C1_Witness ==
  /\ rk_pc = "done"
  /\ Len(rk_result) >= 3
  /\ ScoreLess(rk_result[2].score, rk_result[1].score)
  /\ ScoreLess(rk_result[3].score, rk_result[2].score)
  /\ ScoreLess(rk_scored[1].score, rk_scored[2].score)

\* A text made of whitespace only (the empty text too).
OnlyWhitespace(t) == \A i \in 1..Len(t) : t[i].c \in Whitespace

\* The candidates among the first k of candidates_data that are dicts with
\* both keys and a resume that is not blank.
RECURSIVE EmbeddableResumes(_, _)
EmbeddableResumes(items, k) ==
  IF k = 0 THEN <<>>
  ELSE LET c == items[k]
           before == EmbeddableResumes(items, k - 1)
       IN IF c.isdict /\ {"name", "resume"} \subseteq c.keys /\ ~OnlyWhitespace(c.resume)
          THEN Append(before, c.resume)
          ELSE before

\* The candidates the loop has gone through.
Processed == IF rk_pc = "loop" THEN rk_i - 1 ELSE rk_i

\* C2 as stated: one invocation of rank_candidates makes a single call to
\* the embedding endpoint, whatever the number of candidates.
C2_SingleEmbeddingCall == rk_pc = "done" => Len(rk_calls) <= 1

\* C2 as amended: one invocation calls the embedding endpoint once for the
\* job description and once more for each well-formed candidate with a
\* non-blank resume that the loop goes through, in that order, so never more
\* than 1 + len(candidates_data) times; a list returned after the loop is
\* sorted by score, highest first, and holds the scored candidates.
C2_OneCallPerEmbeddedText ==
  /\ Len(rk_calls) <= 1 + Len(rk_cands.items)
  /\ rk_calls # <<>> =>
       /\ Len(rk_calls) = 1 + Len(EmbeddableResumes(rk_cands.items, Processed))
       /\ rk_calls[1] = Prefix(Strip(ReplaceNewlines(rk_jd)), 8000)
       /\ \A k \in 2..Len(rk_calls) :
            rk_calls[k] =
              Prefix(Strip(ReplaceNewlines(EmbeddableResumes(rk_cands.items, Processed)[k - 1])), 8000)
  /\ (rk_pc = "done" /\ rk_result # <<>>) =>
       /\ Processed = Len(rk_cands.items)
       /\ Len(rk_result) = Len(rk_scored)
       /\ \A i \in 1..Len(rk_scored) : \E j \in 1..Len(rk_result) : rk_result[j] = rk_scored[i]
       /\ ScoresDescend(rk_result)

\* C2 witness: a finished invocation that made four calls, for the job
\* description and three candidates, and returned the three sorted.
C2_Witness ==
  /\ rk_pc = "done"
  /\ Len(rk_calls) = 4
  /\ Len(rk_result) = 3
  /\ rk_result # rk_scored

\* C10: rank_candidates never raises, and it returns the empty list without
\* embedding any candidate resume when the job description is empty or
\* whitespace, when candidates_data is empty or not a list, or when the job
\* description cannot be embedded.
C10_EarlyReturns ==
  /\ ~rk_raised
  /\ rk_pc = "done" =>
       /\ (OnlyWhitespace(rk_jd) \/ rk_cands.items = <<>> \/ ~rk_cands.islist) =>
            /\ rk_result = <<>>
            /\ rk_calls = <<>>
       /\ rk_jdvec = NoneVal =>
            /\ rk_result = <<>>
            /\ Len(rk_calls) <= 1
            /\ \A k \in 1..Len(rk_calls) : rk_calls[k] = Prefix(Strip(ReplaceNewlines(rk_jd)), 8000)

\* C10 witness: candidates_data is a non-empty value that is no list, the
\* job description is fine, and the invocation has returned.
C10_Witness ==
  /\ rk_pc = "done"
  /\ ~OnlyWhitespace(rk_jd)
  /\ ~rk_cands.islist
  /\ rk_cands.items # <<>>

-----------------------------------------------------------------------------
(* Claims about get_embedding (SpecEmbed)                                  *)

\* What get_embedding returns once the endpoint has been called.
ExpectedEmbedding(resp) ==
  IF resp.kind = "response" /\ resp.data # <<>> THEN Some(resp.data[1]) ELSE NoneVal

\* C9 as stated: get_embedding never raises; it returns None without calling
\* the endpoint when the text is empty or whitespace, None when the endpoint
\* fails or returns no data, and otherwise the first embedding of the
\* response for the text with newlines replaced by spaces and cut to at most
\* 8000 characters.
C9_InputReplacedAndCut ==
  ge_pc = "done" =>
    /\ ~ge_raised
    /\ OnlyWhitespace(ge_text) => (ge_ret = NoneVal /\ ge_sent = <<>>)
    /\ ~OnlyWhitespace(ge_text) =>
         /\ ge_sent = <<Prefix(ReplaceNewlines(ge_text), 8000)>>
         /\ ge_ret = ExpectedEmbedding(ge_resp)

\* C9 as amended: the same, the text sent being the text with newlines
\* replaced by spaces, then stripped of leading and trailing whitespace,
\* then cut to at most 8000 characters.
C9_InputReplacedStrippedAndCut ==
  ge_pc = "done" =>
    /\ ~ge_raised
    /\ OnlyWhitespace(ge_text) => (ge_ret = NoneVal /\ ge_sent = <<>>)
    /\ ~OnlyWhitespace(ge_text) =>
         /\ ge_sent = <<Prefix(Strip(ReplaceNewlines(ge_text)), 8000)>>
         /\ TextLen(ge_sent[1]) <= 8000
         /\ \A i \in 1..Len(ge_sent[1]) : ge_sent[1][i].c # "\n"
         /\ ge_ret = ExpectedEmbedding(ge_resp)

\* C9 witness: a text of more than 8000 characters with leading whitespace
\* and a newline inside, for which the endpoint returned two embeddings:
\* 8000 characters were sent and the first embedding was returned.
C9_Witness ==
  /\ ge_pc = "done"
  /\ TextLen(ge_text) > 8000
  /\ ge_text[1].c \in Whitespace
  /\ \E i \in 2..Len(ge_text) : ge_text[i].c = "\n"
  /\ Len(ge_resp.data) = 2
  /\ ge_resp.data[1] # ge_resp.data[2]
  /\ ge_ret = Some(ge_resp.data[1])
  /\ TextLen(ge_sent[1]) = 8000

-----------------------------------------------------------------------------
(* Claims about check_compliance (SpecCompliance)                          *)

\* The prohibited terms that occur in the lowercased text.
TermsIn(text) ==
  LET lowered == Lower(text) IN {term \in ProhibitedTerms : Contains(term, lowered)}

\* The prohibited terms that are a substring of some allowed-context phrase.
TermsOfContexts ==
  {term \in ProhibitedTerms : \E context \in AllowedContexts : Contains(term, context)}

\* C3: check_compliance is a substring scan over the prohibited terms: every
\* reported violation is a prohibited term that occurs in the lowercased
\* text; compliant is True exactly when violations is empty; a text with no
\* prohibited term is compliant; a text with a prohibited term that is not a
\* substring of any allowed-context phrase is not compliant.
C3_SubstringScan ==
  cc_pc = "done" =>
    /\ cc_result.violations \subseteq TermsIn(cc_text)
    /\ cc_result.compliant <=> (cc_result.violations = {})
    /\ TermsIn(cc_text) = {} => cc_result.compliant
    /\ (TermsIn(cc_text) \ TermsOfContexts) # {} => ~cc_result.compliant
    /\ (TermsIn(cc_text) \ TermsOfContexts) \subseteq cc_result.violations

\* C3 witness: a text with a capital letter in a prohibited term, holding an
\* allowed phrase and a term outside every allowed phrase: the term, found in
\* the lowercased text only, is reported and the text is not compliant.
C3_Witness ==
  /\ cc_pc = "done"
  /\ Contains("native app", cc_text)
  /\ Contains("Passion", cc_text)
  /\ "passion" \in cc_result.violations
  /\ "native" \notin cc_result.violations
  /\ ~cc_result.compliant

\* C4: severity is 'none', 'low' or 'high': 'none' iff there are no
\* violations, 'high' iff some violation is in the high-severity set, 'low'
\* otherwise; the recommendation is the text fixed for the severity.
C4_SeverityAndRecommendation ==
  cc_pc = "done" =>
    /\ cc_result.severity \in {"none", "low", "high"}
    /\ cc_result.severity = "none" <=> cc_result.violations = {}
    /\ cc_result.severity = "high" <=>
         cc_result.violations \cap
           {"age", "gender", "disability", "race", "religion",
            "pregnant", "family", "married", "children"} # {}
    /\ cc_result.severity = "none" =>
         cc_result.recommendation = "Feedback passed compliance check."
    /\ cc_result.severity = "low" =>
         cc_result.recommendation =
           "Review feedback for soft skills language. Consider focusing only on technical qualifications."
    /\ cc_result.severity = "high" <=>
         cc_result.recommendation =
           "CRITICAL: Feedback contains prohibited discriminatory language. Do not send. Regenerate with stricter constraints."

\* C4 witness: violations of both kinds, one in the high-severity set and
\* one outside it, with severity 'high'.
C4_Witness ==
  /\ cc_pc = "done"
  /\ "age" \in cc_result.violations
  /\ "man" \in cc_result.violations
  /\ cc_result.severity = "high"

\* Term `term` occurs in text `s` at position i outside every occurrence of
\* an allowed-context phrase.
OccursOutsideContexts(term, s) ==
  \E i \in 1..(Len(s) - Len(term) + 1) :
    /\ SubSeq(s, i, i + Len(term) - 1) = term
    /\ ~\E context \in AllowedContexts :
         \E j \in 1..(Len(s) - Len(context) + 1) :
           /\ SubSeq(s, j, j + Len(context) - 1) = context
           /\ j <= i
           /\ i + Len(term) <= j + Len(context)

\* C5: a prohibited term is exempted only in the allowed context: a term
\* with an occurrence outside every allowed-context phrase is reported as a
\* violation, also when the text holds an allowed-context phrase elsewhere.
C5_ExemptOnlyInContext ==
  cc_pc = "done" =>
    LET lowered == Lower(cc_text)
    IN \A term \in ProhibitedTerms :
         OccursOutsideContexts(term, lowered) => term \in cc_result.violations

-----------------------------------------------------------------------------
(* Claims about generate_compliant_feedback_for_recruiter (SpecFeedback)   *)

\* The text of a chat-completion call passed the compliance check: it came
\* back, and no prohibited term is in it outside the allowed exemptions.
CallPassed(call) ==
  /\ call.kind = "response"
  /\ call.content # NoneVal
  /\ CheckCompliance(call.content.val).violations = {}

\* The text of a chat-completion call failed the compliance check.
CallFailedCheck(call) ==
  /\ call.kind = "response"
  /\ call.content # NoneVal
  /\ CheckCompliance(call.content.val).violations # {}

\* C6: for every max_retries >= 0 the function ends after at most
\* max_retries + 1 chat-completion calls; it makes a further call only after
\* an attempt whose text failed the compliance check; and it returns at once
\* at the first attempt whose text passes the check.
C6_BoundedRetries ==
  fb_max >= 0 =>
    /\ Len(fb_calls) <= fb_max + 1
    /\ Len(fb_calls) = fb_max + 1 => fb_pc = "done"
    /\ fb_pc = "done" => Len(fb_calls) >= 1
    /\ \A k \in 1..(Len(fb_calls) - 1) : CallFailedCheck(fb_calls[k])
    /\ \A k \in 1..Len(fb_calls) :
         CallPassed(fb_calls[k]) =>
           /\ k = Len(fb_calls)
           /\ fb_pc = "done"
           /\ fb_result.compliant
           /\ fb_result.feedback = fb_calls[k].content

\* C6 witness: max_retries = 2, two texts failed the check and the third
\* call's text passed: three calls, and the function has returned.
C6_Witness ==
  /\ fb_pc = "done"
  /\ fb_max = 2
  /\ Len(fb_calls) = 3
  /\ CallPassed(fb_calls[3])

\* C7: every returned result is consistent: exactly one of feedback and
\* error is None, feedback being None iff the generation failed; compliant
\* is True only if error is None, violations is empty and severity is
\* 'none'; and when compliant is False with error None, violations is not
\* empty and severity is 'low' or 'high'.
C7_ResultConsistent ==
  fb_pc = "done" =>
    /\ (fb_result.feedback = NoneVal) # (fb_result.error = NoneVal)
    /\ (fb_result.feedback = NoneVal) <=>
         (fb_calls = <<>> \/ ~(CallPassed(fb_calls[Len(fb_calls)]) \/ CallFailedCheck(fb_calls[Len(fb_calls)])))
    /\ fb_result.compliant =>
         /\ fb_result.error = NoneVal
         /\ fb_result.violations = {}
         /\ fb_result.severity = "none"
    /\ (~fb_result.compliant /\ fb_result.error = NoneVal) =>
         /\ fb_result.violations # {}
         /\ fb_result.severity \in {"low", "high"}

\* C7 witness: the retries are used up and the last text failed the check:
\* the result carries the text, its violations and severity 'high'.
C7_Witness ==
  /\ fb_pc = "done"
  /\ fb_max = 1
  /\ Len(fb_calls) = 2
  /\ ~fb_result.compliant
  /\ fb_result.error = NoneVal
  /\ fb_result.feedback = Some("manage")
  /\ fb_result.severity = "high"

-----------------------------------------------------------------------------
(* Claims about extract_text_from_pdf (SpecPdf)                            *)

\* The extraction of a file fails: there is no file, the file cannot be read
\* or has no bytes, the bytes are no PDF, the PDF has no pages, or the
\* extraction of a page raises.
ExtractionFails(f) ==
  \/ ~f.present
  \/ f.read = "raise"
  \/ f.empty
  \/ f.parse = "raise"
  \/ f.pages = <<>>
  \/ \E k \in 1..Len(f.pages) : f.pages[k].kind = "raise"

\* The texts of the pages that have text, in page order, each followed by a
\* newline.
PagesWithText(pages) ==
  SelectSeq(pages, LAMBDA pg : pg.kind = "text" /\ Len(pg.text) > 0)
RECURSIVE JoinLines(_)
JoinLines(pages) ==
  IF pages = <<>> THEN "" ELSE pages[1].text \o "\n" \o JoinLines(Tail(pages))

\* C8: extract_text_from_pdf reports every failure as a ValueError and lets
\* no other exception type out; on success it returns the texts of the pages
\* that have text, in page order, each followed by a newline, with leading
\* and trailing whitespace stripped.
C8_ValueErrorOrStrippedText ==
  pdf_pc = "done" =>
    /\ pdf_result.kind = "raise" => pdf_result.type = "ValueError"
    /\ ExtractionFails(pdf_file) => pdf_result.kind = "raise"
    /\ ~ExtractionFails(pdf_file) =>
         /\ pdf_result.kind = "return"
         /\ pdf_result.value = StripString(JoinLines(PagesWithText(pdf_file.pages)))

\* C8 witness: a PDF of three pages, the second without text, the others
\* with whitespace at the ends: the two texts are returned joined, stripped.
C8_Witness ==
  /\ pdf_pc = "done"
  /\ pdf_file.pages = <<PageText(" b\n"), PageNone, PageText("c d ")>>
  /\ pdf_result = Return("b\n\nc d")

-----------------------------------------------------------------------------
(* Claims about the recruiter page                                         *)

\* The four rules of the claim, in its order: empty, too short, no files,
\* more than 50 files.
RuleFails(rule, job_desc, files) ==
  CASE rule = 1 -> TextLen(Strip(job_desc)) = 0
    [] rule = 2 -> TextLen(Strip(job_desc)) < 50
    [] rule = 3 -> Len(files) = 0
    [] rule = 4 -> Len(files) > 50
RuleMessage(rule) ==
  CASE rule = 1 -> "Job description cannot be empty"
    [] rule = 2 -> "Job description too short (minimum 50 characters)"
    [] rule = 3 -> "No resumes uploaded"
    [] rule = 4 -> "Maximum 50 resumes per batch"
FirstFailing(job_desc, files) ==
  CHOOSE rule \in 1..4 :
    /\ RuleFails(rule, job_desc, files)
    /\ \A earlier \in 1..(rule - 1) : ~RuleFails(earlier, job_desc, files)

\* C11: validate_inputs returns (True, None) exactly when the job
\* description has at least 50 characters after stripping and between 1 and
\* 50 files are uploaded; otherwise it returns False with the message of the
\* first failing rule in the order empty, too short, no files, more than 50
\* files; and after a click whose validation returned False the page has
\* stopped without calling rank_candidates: no embedding was requested and
\* the ranking is not in progress.
C11_ValidationGatesRanking ==
  /\ vi_pc = "done" =>
       LET accepted == /\ TextLen(Strip(vi_jd)) >= 50
                       /\ Len(vi_files) >= 1
                       /\ Len(vi_files) <= 50
       IN IF accepted
          THEN vi_result = [ok |-> TRUE, message |-> NoneVal]
          ELSE vi_result = [ok |-> FALSE,
                            message |-> Some(RuleMessage(FirstFailing(vi_jd, vi_files)))]
  /\ (rp_valid # NoneVal /\ ~rp_valid.val.ok) =>
       /\ ~rp_ranking
       /\ rp_pc = "waiting"
       /\ rk_pc = "idle"
       /\ rk_calls = <<>>

\* C11 witness: a click with a job description of 51 characters after
\* stripping and 51 uploaded files was stopped with the message of the last
\* rule, and nothing was ranked.
C11_Witness ==
  /\ rp_valid = Some([ok |-> FALSE, message |-> Some("Maximum 50 resumes per batch")])
  /\ TextLen(Strip(rp_jd)) = 51
  /\ Len(rp_files) = 51
  /\ rp_error = "Validation Error: Maximum 50 resumes per batch"
  /\ ~rp_ranking
  /\ rk_pc = "idle"

\* C12: whenever the feedback section is shown with the selectbox at its
\* default, the selected candidate is the last entry of ranked_data and no
\* entry of ranked_data has a lower score.
C12_DefaultIsLowestRanked ==
  (rp_shown /\ rp_choice = 0) =>
    /\ rp_selected = Some(rp_ranked.val[Len(rp_ranked.val)])
    /\ \A i \in 1..Len(rp_ranked.val) :
         ~ScoreLess(rp_ranked.val[i].score, rp_selected.val.score)

====
